---- MODULE Spec2Model ----
(***************************************************************************)
(* Model of the option-based validation pipeline of xmidt-org/webhook-     *)
(* schema: the pipeline Validate (validation.go), the options of           *)
(* options.go, and the capability methods of RegistrationV1 and            *)
(* RegistrationV2 (validation.go).                                         *)
(*                                                                         *)
(* Times are integers; 0 is the zero time.Time (Until.IsZero()).  A        *)
(* duration is an integer number of ticks, possibly negative.  A clock     *)
(* function (func() time.Time) is represented by the instant it returns;   *)
(* NilFunc is the nil function value.  The real clock time.Now() is the    *)
(* variable clock, which only moves forward.                               *)
(***************************************************************************)
EXTENDS Integers, Sequences, FiniteSets, TLC

\* ------------------------------------------------------------------ bounds

\* Largest instant of the real clock, of Until and of Expires.
MaxTime == 3
\* Largest ttl and largest Duration drawn.
MaxTTL == 1
\* Longest option list handed to Validate.
MaxOpts == 2
\* Most hours of a CustomDuration rendered.
MaxHours == 2

\* ------------------------------------------------------------------ errors

\* The nil error.
Nil == [kind |-> "nil"]

\* A sentinel error value (errors.New / fmt.Errorf without %w).
Sentinel(name) == [kind |-> "sentinel", name |-> name]

ErrInvalidInput == Sentinel("invalid input")
ErrInvalidType == Sentinel("invalid type")
ErrInvalidOption == Sentinel("invalid option")
ErrUknownType == Sentinel("unknown type")
\* An error of the caller's own, handed to Error(err).
ErrCaller == Sentinel("caller error")
\* The reason the URL checker gives when it rejects a URL.
ErrChecker == Sentinel("url rejected")

\* fmt.Errorf("%w: msg", inner)
Wrap(inner, msg) == [kind |-> "wrap", msg |-> msg, inner |-> inner]

\* errors.Join(a, b): nil operands are discarded; nil when nothing is left.
errorsJoinFirstOnly(a, b) == IF a # Nil THEN a ELSE b

errorsJoin(a, b) ==
  IF a = Nil /\ b = Nil THEN Nil
  ELSE [kind |-> "join",
        errs |-> (IF a = Nil THEN <<>> ELSE <<a>>) \o (IF b = Nil THEN <<>> ELSE <<b>>)]

\* Fold of `if e != nil { errs = errors.Join(errs, e) }` over a list of
\* results, from errs = nil.
RECURSIVE JoinAll(_)
JoinAll(es) ==
  IF es = <<>> THEN Nil
  ELSE LET front == JoinAll(SubSeq(es, 1, Len(es) - 1))
       IN  IF es[Len(es)] = Nil THEN front ELSE errorsJoin(front, es[Len(es)])

\* errors.Is(err, target): walks the Unwrap chain and every member of a join.
RECURSIVE errorsIs(_, _)
errorsIs(err, target) ==
  IF err = Nil \/ target = Nil THEN err = target
  ELSE \/ err = target
       \/ err.kind = "wrap" /\ errorsIs(err.inner, target)
       \/ err.kind = "join" /\ \E k \in DOMAIN err.errs : errorsIs(err.errs[k], target)

\* The messages fmt.Errorf put into err, anywhere in its tree (err.Error()).
RECURSIVE Messages(_)
Messages(err) ==
  IF err.kind = "wrap" THEN {err.msg} \cup Messages(err.inner)
  ELSE IF err.kind = "join"
       THEN UNION {Messages(err.errs[k]) : k \in DOMAIN err.errs}
       ELSE {}

MsgTooLong == "the registration is for too long"
MsgEither == "either Duration or Until must be set"
MsgOnlyOne == "only one of Duration or Until may be set"
MsgExpired == "the registration has already expired"
MsgZeroEvents == "cannot have zero events"
MsgMatcher == "must have Matcher for events"
MsgBadType == "Registration must be of type RegistrationV1 or RegistrationV2"
MsgBadTypeV1 == "Registration must be of type RegistrationV1"
MsgNoNowFunc == "RegistrationV2 does not have nowFunc."
MsgFailureURL == "failure url is invalid"
MsgReceiverURL == "receiver url is invalid"
MsgAltURL == "alternative url is invalid: "
MsgAfter == "%v after %v"
MsgNoUntil == "Until is not allowed"
MsgNoUntilV2 == "RegistrationV2 does not use an Until field"
MsgCompile == "unable to compile matching"
MsgNoAltURLs == "RegistrationV2 does not have an alternative urls field"

\* ------------------------------------------------------------- registrations

\* The nil func() time.Time.
NilFunc == -1

\* URL strings: empty, one the checker accepts, one it rejects, one that does
\* not parse as a URL at all.
UrlEmpty == ""
UrlGood == "https://example.com"
UrlBad == "http://example.com"
UrlMalformed == "::not a url"
Urls == {UrlEmpty, UrlGood, UrlBad, UrlMalformed}

\* *urlegit.Checker: nil, or a checker built with OnlyAllowSchemes("https").
NilChecker == "nil"
HTTPSChecker == "OnlyAllowSchemes('https')"

\* (*urlegit.Checker).Text(url): nil when the URL passes the policy.
CheckerText(c, url) == IF url = UrlGood THEN Nil ELSE ErrChecker

\* *RegistrationV1
RegV1(events, duration, until, failureURL, receiverURL, altURLs, nowFunc) ==
  [variant |-> "V1", Events |-> events, Duration |-> duration, Until |-> until,
   FailureURL |-> failureURL, ReceiverURL |-> receiverURL,
   AlternativeURLs |-> altURLs, DeviceID |-> <<>>, nowFunc |-> nowFunc]

\* *RegistrationV2
RegV2(matcher, expires, failureURL, receiverURLs) ==
  [variant |-> "V2", Matcher |-> matcher, Expires |-> expires,
   FailureURL |-> failureURL, ReceiverURLs |-> receiverURLs]

\* A value that is neither *RegistrationV1 nor *RegistrationV2 (nil).
NoReg == [variant |-> "nil"]

\* The instant nowFunc() returns for a registration: the override when one is
\* installed, else the real clock.
ActiveNowReal(f, real) == real

ActiveNow(f, real) == IF f # NilFunc THEN f ELSE real

\* ----------------------------------------------------------------- options

\* A nil entry of the option list.
NilOption == [op |-> "nil"]
Error(err) == [op |-> "Error", err |-> err]
AtLeastOneEvent == [op |-> "AtLeastOneEvent"]
EventRegexMustCompile == [op |-> "EventRegexMustCompile"]
DeviceIDRegexMustCompile == [op |-> "DeviceIDRegexMustCompile"]
ValidateRegistrationDuration(ttl) == [op |-> "ValidateRegistrationDuration", ttl |-> ttl]
ProvideTimeNowFunc(f) == [op |-> "ProvideTimeNowFunc", nowFunc |-> f]
ProvideFailureURLValidator(c) == [op |-> "ProvideFailureURLValidator", checker |-> c]
ProvideReceiverURLValidator(c) == [op |-> "ProvideReceiverURLValidator", checker |-> c]
ProvideAlternativeURLValidator(c) == [op |-> "ProvideAlternativeURLValidator", checker |-> c]
NoUntil == [op |-> "NoUntil"]

\* What an option's Validate gives back: its error and the registration as
\* the call left it.
Outcome(err, v) == [err |-> err, v |-> v]

\* errorOption.Validate
errorOption(o, v) == Outcome(o.err, v)

\* The default case of the type switch of an option of options.go.
DefaultCase(v) == Wrap(ErrInvalidType, MsgBadType)

\* len(r.Events) == 0
NoEventsOrOne(v) == Len(v.Events) <= 1

NoEvents(v) == Len(v.Events) = 0

\* atLeastOneEventOption.Validate
atLeastOneEventOption(v) ==
  IF v.variant = "V1"
  THEN Outcome(IF NoEvents(v) THEN Wrap(ErrInvalidInput, MsgZeroEvents) ELSE Nil, v)
  ELSE IF v.variant = "V2"
  THEN Outcome(IF Len(v.Matcher) = 0 THEN Wrap(ErrInvalidInput, MsgMatcher) ELSE Nil, v)
  ELSE Outcome(DefaultCase(v), v)

\* regexp.Compile(e) returns no error.
RegexBad == "("
Compiles(e) == e # RegexBad

\* The loop over the patterns: an error at the first that does not compile.
AllCompile(patterns) ==
  IF \A k \in DOMAIN patterns : Compiles(patterns[k])
  THEN Nil ELSE Wrap(ErrInvalidInput, MsgCompile)

\* eventRegexMustCompileOption.Validate
eventRegexMustCompileOption(v) ==
  IF v.variant = "V1" THEN Outcome(AllCompile(v.Events), v)
  ELSE IF v.variant = "V2" THEN Outcome(AllCompile(v.Matcher), v)
  ELSE Outcome(DefaultCase(v), v)

\* deviceIDRegexMustCompileOption.Validate: the V2 case is empty.
deviceIDRegexMustCompileOption(v) ==
  IF v.variant = "V1" THEN Outcome(AllCompile(v.DeviceID), v)
  ELSE IF v.variant = "V2" THEN Outcome(Nil, v)
  ELSE Outcome(DefaultCase(v), v)

\* The ttl normalisation at the head of the expiry check: ttl <= 0 means no
\* upper bound.
NormalizeTTLNone(ttl) == ttl

NormalizeTTL(ttl) == IF ttl <= 0 THEN 0 ELSE ttl

\* Until.After(now.Add(ttl)) with a bound set.
UntilTooLong(until, now, ttl) == ttl # 0 /\ until > now + ttl

\* Until.Before(now)
UntilExpiredInclusive(until, now) == until <= now

UntilExpired(until, now) == until < now

\* ttl < Duration with a bound set.
DurationTooLongInclusive(duration, ttl) == ttl # 0 /\ ttl <= duration

DurationTooLong(duration, ttl) == ttl # 0 /\ ttl < duration

\* The exactly-one-of rule: neither set, both set.
NeitherSetOrNegative(duration, until) == until = 0 /\ duration <= 0

NeitherSet(duration, until) == until = 0 /\ duration = 0

BothSetLax(duration, until) == until # 0 /\ duration > 0

BothSet(duration, until) == until # 0 /\ duration # 0

\* validateRegistrationDurationOption.Validate, the *RegistrationV1 case: the
\* first failing check returns.
durationOptionV1(ttl0, v, real) ==
  LET ttl == NormalizeTTL(ttl0)
      now == ActiveNow(v.nowFunc, real)
  IN  IF DurationTooLong(v.Duration, ttl) THEN Wrap(ErrInvalidInput, MsgTooLong)
      ELSE IF NeitherSet(v.Duration, v.Until) THEN Wrap(ErrInvalidInput, MsgEither)
      ELSE IF BothSet(v.Duration, v.Until) THEN Wrap(ErrInvalidInput, MsgOnlyOne)
      ELSE IF v.Until # 0 /\ UntilTooLong(v.Until, now, ttl)
           THEN Wrap(ErrInvalidInput, MsgTooLong)
      ELSE IF v.Until # 0 /\ UntilExpired(v.Until, now)
           THEN Wrap(ErrInvalidInput, MsgExpired)
      ELSE Nil

\* (*RegistrationV1).ValidateDuration: the same checks, every failure joined.
ValidateDurationV1(v, ttl0, real) ==
  LET ttl == NormalizeTTL(ttl0)
      now == ActiveNow(v.nowFunc, real)
      e1 == IF DurationTooLong(v.Duration, ttl) THEN Wrap(ErrInvalidInput, MsgTooLong) ELSE Nil
      e2 == IF NeitherSet(v.Duration, v.Until) THEN Wrap(ErrInvalidInput, MsgEither) ELSE Nil
      e3 == IF BothSet(v.Duration, v.Until) THEN Wrap(ErrInvalidInput, MsgOnlyOne) ELSE Nil
      e4 == IF v.Until # 0 /\ UntilTooLong(v.Until, now, ttl)
            THEN Wrap(ErrInvalidInput, MsgTooLong) ELSE Nil
      e5 == IF v.Until # 0 /\ UntilExpired(v.Until, now)
            THEN Wrap(ErrInvalidInput, MsgExpired) ELSE Nil
  IN  JoinAll(<<e1, e2, e3, e4, e5>>)

\* (*RegistrationV2).ValidateDuration: always nil.
ValidateDurationV2(v, ttl0) == Nil

\* now.After(r.Expires)
NowAfterExpiresInclusive(now, expires) == now >= expires

NowAfterExpires(now, expires) == now > expires

\* validateRegistrationDurationOption.Validate; the *RegistrationV2 case reads
\* time.Now() and not the ttl.
validateRegistrationDurationOption(o, v, real) ==
  IF v.variant = "V1" THEN Outcome(durationOptionV1(o.ttl, v, real), v)
  ELSE IF v.variant = "V2"
  THEN Outcome(IF NowAfterExpires(real, v.Expires)
               THEN Wrap(ErrInvalidInput, MsgExpired) ELSE Nil, v)
  ELSE Outcome(DefaultCase(v), v)

\* provideTimeNowFuncOption.Validate: the one option that writes to the
\* registration.
SetNowFuncClearsUntil(v, f) == [v EXCEPT !.nowFunc = f, !.Until = 0]

SetNowFuncIgnored(v, f) == v

SetNowFuncKeepsOnNil(v, f) == IF f = NilFunc THEN v ELSE [v EXCEPT !.nowFunc = f]

SetNowFunc(v, f) == [v EXCEPT !.nowFunc = f]

\* The clock option as a delegating layout writes it: only the V1 case acts,
\* every other registration gets nil.
provideTimeNowFuncOptionSilent(o, v) ==
  IF v.variant = "V1" THEN Outcome(Nil, SetNowFunc(v, o.nowFunc)) ELSE Outcome(Nil, v)

provideTimeNowFuncOption(o, v) ==
  IF v.variant = "V1" THEN Outcome(Nil, SetNowFunc(v, o.nowFunc))
  ELSE IF v.variant = "V2" THEN Outcome(Wrap(ErrInvalidOption, MsgNoNowFunc), v)
  ELSE Outcome(Wrap(ErrInvalidType, MsgBadTypeV1), v)

\* The guard every URL option opens with: no checker, no constraint.
NoCheckerGuardMissing(c) == FALSE

NoCheckerGuard(c) == c = NilChecker

\* The checker applied to one URL of the registration; a nil checker that is
\* dereferenced rejects (the call panics).
TextOrPanic(c, url) == IF c = NilChecker THEN ErrChecker ELSE CheckerText(c, url)

\* provideFailureURLValidatorOption.Validate
provideFailureURLValidatorOption(o, v) ==
  IF NoCheckerGuard(o.checker) THEN Outcome(Nil, v)
  ELSE IF v.variant \notin {"V1", "V2"} THEN Outcome(DefaultCase(v), v)
  ELSE IF v.FailureURL # UrlEmpty /\ TextOrPanic(o.checker, v.FailureURL) # Nil
       THEN Outcome(Wrap(ErrInvalidInput, MsgFailureURL), v)
  ELSE Outcome(Nil, v)

\* The per-URL errors of the *RegistrationV2 case of the receiver option: the
\* URLs of every webhook, in order, empty ones skipped.
ReceiverErrors(c, urls) ==
  [k \in DOMAIN urls |->
     IF urls[k] # UrlEmpty /\ TextOrPanic(c, urls[k]) # Nil
     THEN Wrap(ErrInvalidInput, MsgReceiverURL) ELSE Nil]

\* provideReceiverURLValidatorOption.Validate
provideReceiverURLValidatorOption(o, v) ==
  IF NoCheckerGuard(o.checker) THEN Outcome(Nil, v)
  ELSE IF v.variant = "V1"
  THEN Outcome(IF v.ReceiverURL # UrlEmpty /\ TextOrPanic(o.checker, v.ReceiverURL) # Nil
               THEN Wrap(ErrInvalidInput, MsgReceiverURL) ELSE Nil, v)
  ELSE IF v.variant = "V2"
  THEN Outcome(JoinAll(ReceiverErrors(o.checker, v.ReceiverURLs)), v)
  ELSE Outcome(DefaultCase(v), v)

\* The first alternative URL the checker rejects, 0 when there is none.
FirstRejected(c, urls) ==
  IF \E k \in DOMAIN urls : TextOrPanic(c, urls[k]) # Nil
  THEN CHOOSE k \in DOMAIN urls :
         /\ TextOrPanic(c, urls[k]) # Nil
         /\ \A j \in 1..(k - 1) : TextOrPanic(c, urls[j]) = Nil
  ELSE 0

\* The loop of provideAlternativeURLValidatorOption.Validate over
\* r.Config.AlternativeURLs: it returns at the first rejected URL.
alternativeURLsLoop(c, urls) ==
  IF FirstRejected(c, urls) # 0 THEN Wrap(ErrInvalidInput, MsgFailureURL) ELSE Nil

\* provideAlternativeURLValidatorOption.Validate
provideAlternativeURLValidatorOption(o, v) ==
  IF NoCheckerGuard(o.checker) THEN Outcome(Nil, v)
  ELSE IF v.variant = "V1" THEN Outcome(alternativeURLsLoop(o.checker, v.AlternativeURLs), v)
  ELSE IF v.variant = "V2" THEN Outcome(Wrap(ErrInvalidType, MsgNoAltURLs), v)
  ELSE Outcome(ErrUknownType, v)

\* (*RegistrationV1).ValidateOneEvent
ValidateOneEventV1(v) ==
  IF NoEvents(v) THEN Wrap(ErrInvalidInput, MsgZeroEvents) ELSE Nil

\* (*RegistrationV2).ValidateOneEvent: its body is commented out.
ValidateOneEventV2(v) == Nil

\* (*RegistrationV1).ValidateFailureURL and (*RegistrationV2).ValidateFailureURL:
\* the checker's error is what the returned error wraps.
ValidateFailureURL(v, c) ==
  IF v.FailureURL # UrlEmpty /\ CheckerText(c, v.FailureURL) # Nil
  THEN Wrap(CheckerText(c, v.FailureURL), MsgFailureURL)
  ELSE Nil

\* (*RegistrationV1).ValidateReceiverURL
ValidateReceiverURLV1(v, c) ==
  IF v.ReceiverURL # UrlEmpty /\ CheckerText(c, v.ReceiverURL) # Nil
  THEN Wrap(ErrInvalidInput, MsgReceiverURL)
  ELSE Nil

\* (*RegistrationV2).ValidateReceiverURL: its body is commented out.
ValidateReceiverURLV2(v, c) == Nil

\* The per-URL results of the loop of (*RegistrationV1).ValidateAltURL.
AltURLErrors(c, urls) ==
  [k \in DOMAIN urls |->
     IF CheckerText(c, urls[k]) # Nil
     THEN Wrap(ErrInvalidInput, MsgAltURL \o urls[k]) ELSE Nil]

\* (*RegistrationV1).ValidateAltURL: every rejected URL is joined.
ValidateAltURLV1(v, c) == JoinAll(AltURLErrors(c, v.AlternativeURLs))

\* (*RegistrationV2).ValidateAltURL: its body is commented out.
ValidateAltURLV2(v, c) == Nil

\* proposed.After(limit)
AfterLimitInclusive(until, limit) == until >= limit

AfterLimit(until, limit) == until > limit

\* (*RegistrationV1).ValidateUntil(jitter, maxTTL, now): a nil now is time.Now.
ValidateUntilV1(v, jitter, maxTTL, now, real) ==
  IF maxTTL < 0 THEN ErrInvalidInput
  ELSE IF jitter < 0 THEN ErrInvalidInput
  ELSE IF v.Until = 0 THEN Nil
  ELSE IF AfterLimit(v.Until, (ActiveNow(now, real) + maxTTL) + jitter)
       THEN Wrap(ErrInvalidInput, MsgAfter)
  ELSE Nil

\* (*RegistrationV2).ValidateUntil: its body is commented out.
ValidateUntilV2(v, jitter, maxTTL, now) == Nil

\* !v1.Until.IsZero()
UntilIsSetAndNoDuration(v) == v.Until # 0 /\ v.Duration = 0

UntilIsSet(v) == v.Until # 0

\* (*RegistrationV1).ValidateNoUntil
ValidateNoUntilV1(v) ==
  IF UntilIsSet(v) THEN Wrap(ErrInvalidInput, MsgNoUntil) ELSE Nil

\* (*RegistrationV2).ValidateNoUntil: its body is commented out.
ValidateNoUntilV2(v) == Nil

\* noUntilOption.Validate
noUntilOption(v) ==
  IF v.variant = "V1" THEN Outcome(ValidateNoUntilV1(v), v)
  ELSE IF v.variant = "V2" THEN Outcome(Wrap(ErrInvalidType, MsgNoUntilV2), v)
  ELSE Outcome(ErrUknownType, v)

\* opt.Validate(v): the dynamic dispatch on the option's type.
OptionValidate(o, v, real) ==
  CASE o.op = "Error" -> errorOption(o, v)
    [] o.op = "AtLeastOneEvent" -> atLeastOneEventOption(v)
    [] o.op = "ValidateRegistrationDuration" -> validateRegistrationDurationOption(o, v, real)
    [] o.op = "ProvideTimeNowFunc" -> provideTimeNowFuncOption(o, v)
    [] o.op = "ProvideFailureURLValidator" -> provideFailureURLValidatorOption(o, v)
    [] o.op = "ProvideReceiverURLValidator" -> provideReceiverURLValidatorOption(o, v)
    [] o.op = "ProvideAlternativeURLValidator" -> provideAlternativeURLValidatorOption(o, v)
    [] o.op = "NoUntil" -> noUntilOption(v)
    [] o.op = "EventRegexMustCompile" -> eventRegexMustCompileOption(v)
    [] o.op = "DeviceIDRegexMustCompile" -> deviceIDRegexMustCompileOption(v)

\* ---------------------------------------------------------------- pipeline

RunIds == {"a", "b"}
RegIds == {"r1", "r2"}

VARIABLES
  clock,    \* the real clock, time.Now()
  pool,     \* the options the caller builds its lists from
  reg0,     \* history: the registrations as they were handed over
  live,     \* the runs the caller makes
  reg,      \* the registrations, by identity
  target,   \* the registration each run validates
  opts,     \* the option list of each run
  pc,       \* where each run of Validate is: idle, loop, done
  idx,      \* the loop position of each run
  errs,     \* the local errs of each run; at done, the value returned
  trace,    \* history: the options each run applied and what they returned
  direct,   \* history: the capability method called on the registration itself
  codec     \* a CustomDuration on its way through MarshalJSON and UnmarshalJSON

vars == <<clock, pool, reg0, live, reg, target, opts, pc, idx, errs, trace, direct, codec>>

\* The lists of at most n options drawn from a pool.
OptionLists(from, n) == UNION {[1..k -> from] : k \in 0..n}

\* The loop body of Validate on an option that returned err: the loop goes on
\* to the next option whatever err is.
AfterOptionShortCircuit(i, n, err) == IF err # Nil THEN n + 1 ELSE i + 1

AfterOption(i, n, err) == i + 1

\* if err != nil { errs = errors.Join(errs, err) }
AccumulateLast(acc, err) == err

Accumulate(acc, err) == IF err # Nil THEN errorsJoin(acc, err) ELSE acc

\* var errs error: the accumulator is a local of the call.
ErrsShared(p) == "a"

ErrsOf(p) == p

\* if opt != nil: a nil entry is not applied.
IsNilEntry(o) == o = NilOption

\* The options whose Validate may call a clock.
ReadsClock(o) == o.op = "ValidateRegistrationDuration"

\* No capability method has been called directly.
NoCall == [method |-> "none"]

Durations == {-1, 0, MaxTTL, MaxTTL + 1}
TTLs == {-1, 0, MaxTTL}
Instants == 0..MaxTime
ClockFuncs == {NilFunc, 1, MaxTTL + 1}
Jitters == -1..1
\* The fixed clock a registration may arrive with.
mockNow == 1

\* Validate(v, opts) is entered.
Call(p) ==
  /\ p \in live
  /\ \A q \in RunIds : pc[q] = "idle"
  /\ direct = NoCall
  /\ \E l \in OptionLists(pool, MaxOpts) : opts' = [opts EXCEPT ![p] = l]
  /\ pc' = [pc EXCEPT ![p] = "loop"]
  /\ idx' = [idx EXCEPT ![p] = 1]
  /\ errs' = [errs EXCEPT ![ErrsOf(p)] = Nil]
  /\ trace' = [trace EXCEPT ![p] = <<>>]
  /\ UNCHANGED <<codec, clock, pool, reg0, live, reg, target, direct>>

\* Validate is entered again with the option list of a call already made: on
\* the same registration once that call has returned, on another registration
\* at any time.
CallAgain(p) ==
  /\ p \in live
  /\ pc[p] = "idle"
  /\ \E q \in live \ {p} :
       /\ pc[q] # "idle"
       /\ target[q] = target[p] => pc[q] = "done"
       /\ opts' = [opts EXCEPT ![p] = opts[q]]
  /\ pc' = [pc EXCEPT ![p] = "loop"]
  /\ idx' = [idx EXCEPT ![p] = 1]
  /\ errs' = [errs EXCEPT ![ErrsOf(p)] = Nil]
  /\ trace' = [trace EXCEPT ![p] = <<>>]
  /\ UNCHANGED <<codec, clock, pool, reg0, live, reg, target, direct>>

\* Validate is entered with one option, as another list, on a registration
\* that a call still in its loop is validating, or has validated: nothing in
\* Validate or in the registration keeps the two calls apart.
CallOther(p) ==
  /\ p \in live
  /\ pc[p] = "idle"
  /\ \E q \in live \ {p} :
       /\ pc[q] # "idle"
       /\ target[q] = target[p]
       /\ \E o \in pool : <<o>> # opts[q] /\ opts' = [opts EXCEPT ![p] = <<o>>]
  /\ pc' = [pc EXCEPT ![p] = "loop"]
  /\ idx' = [idx EXCEPT ![p] = 1]
  /\ errs' = [errs EXCEPT ![ErrsOf(p)] = Nil]
  /\ trace' = [trace EXCEPT ![p] = <<>>]
  /\ UNCHANGED <<codec, clock, pool, reg0, live, reg, target, direct>>

\* One iteration of for _, opt := range opts.
Loop(p) ==
  /\ pc[p] = "loop"
  /\ idx[p] <= Len(opts[p])
  /\ LET o == opts[p][idx[p]]
         v == reg[target[p]]
     IN  IF IsNilEntry(o)
         THEN /\ idx' = [idx EXCEPT ![p] = @ + 1]
              /\ UNCHANGED <<reg, errs, trace>>
         ELSE LET out == OptionValidate(o, v, clock)
              IN  /\ reg' = [reg EXCEPT ![target[p]] = out.v]
                  /\ errs' = [errs EXCEPT ![ErrsOf(p)] = Accumulate(@, out.err)]
                  /\ idx' = [idx EXCEPT ![p] = AfterOption(@, Len(opts[p]), out.err)]
                  /\ trace' = [trace EXCEPT ![p] =
                       Append(@, [i |-> idx[p], err |-> out.err,
                                  real |-> IF ReadsClock(o) THEN clock ELSE 0,
                                  nowFunc |-> IF v.variant = "V1" THEN v.nowFunc ELSE NilFunc])]
  /\ UNCHANGED <<codec, clock, pool, reg0, live, target, opts, pc, direct>>

\* return errs
Return(p) ==
  /\ pc[p] = "loop"
  /\ idx[p] > Len(opts[p])
  /\ pc' = [pc EXCEPT ![p] = "done"]
  /\ UNCHANGED <<codec, clock, pool, reg0, live, reg, target, opts, idx, errs, trace, direct>>

\* The caller calls v.ValidateDuration(ttl) on the registration itself, as the
\* options of the delegating layout do.
ValidateDuration(r) ==
  /\ direct = NoCall
  /\ \A p \in RunIds : pc[p] = "idle"
  /\ reg[r].variant \in {"V1", "V2"}
  /\ \E ttl \in TTLs :
       direct' = [method |-> "ValidateDuration", r |-> r, ttl |-> ttl, real |-> clock,
                  err |-> IF reg[r].variant = "V1"
                          THEN ValidateDurationV1(reg[r], ttl, clock)
                          ELSE ValidateDurationV2(reg[r], ttl)]
  /\ UNCHANGED <<codec, clock, pool, reg0, live, reg, target, opts, pc, idx, errs, trace>>

\* The caller calls v.ValidateOneEvent() on the registration itself.
ValidateOneEventCall(r) ==
  /\ direct = NoCall
  /\ \A p \in RunIds : pc[p] = "idle"
  /\ reg[r].variant \in {"V1", "V2"}
  /\ direct' = [method |-> "ValidateOneEvent", r |-> r,
                err |-> IF reg[r].variant = "V1"
                        THEN ValidateOneEventV1(reg[r]) ELSE ValidateOneEventV2(reg[r])]
  /\ UNCHANGED <<codec, clock, pool, reg0, live, reg, target, opts, pc, idx, errs, trace>>

\* The caller calls a URL method of the registration itself with its checker.
ValidateFailureURLCall(r) ==
  /\ direct = NoCall
  /\ \A p \in RunIds : pc[p] = "idle"
  /\ reg[r].variant \in {"V1", "V2"}
  /\ direct' = [method |-> "ValidateFailureURL", r |-> r, checker |-> HTTPSChecker,
                err |-> ValidateFailureURL(reg[r], HTTPSChecker)]
  /\ UNCHANGED <<codec, clock, pool, reg0, live, reg, target, opts, pc, idx, errs, trace>>

ValidateReceiverURLCall(r) ==
  /\ direct = NoCall
  /\ \A p \in RunIds : pc[p] = "idle"
  /\ reg[r].variant \in {"V1", "V2"}
  /\ direct' = [method |-> "ValidateReceiverURL", r |-> r, checker |-> HTTPSChecker,
                err |-> IF reg[r].variant = "V1"
                        THEN ValidateReceiverURLV1(reg[r], HTTPSChecker)
                        ELSE ValidateReceiverURLV2(reg[r], HTTPSChecker)]
  /\ UNCHANGED <<codec, clock, pool, reg0, live, reg, target, opts, pc, idx, errs, trace>>

ValidateAltURLCall(r) ==
  /\ direct = NoCall
  /\ \A p \in RunIds : pc[p] = "idle"
  /\ reg[r].variant \in {"V1", "V2"}
  /\ direct' = [method |-> "ValidateAltURL", r |-> r, checker |-> HTTPSChecker,
                err |-> IF reg[r].variant = "V1"
                        THEN ValidateAltURLV1(reg[r], HTTPSChecker)
                        ELSE ValidateAltURLV2(reg[r], HTTPSChecker)]
  /\ UNCHANGED <<codec, clock, pool, reg0, live, reg, target, opts, pc, idx, errs, trace>>

\* The caller calls v.ValidateUntil(jitter, maxTTL, now) on the registration
\* itself.
ValidateUntilCall(r) ==
  /\ direct = NoCall
  /\ \A p \in RunIds : pc[p] = "idle"
  /\ reg[r].variant \in {"V1", "V2"}
  /\ \E jitter \in Jitters, maxTTL \in TTLs, now \in {NilFunc, mockNow} :
       direct' = [method |-> "ValidateUntil", r |-> r, jitter |-> jitter,
                  maxTTL |-> maxTTL, now |-> now, real |-> clock,
                  err |-> IF reg[r].variant = "V1"
                          THEN ValidateUntilV1(reg[r], jitter, maxTTL, now, clock)
                          ELSE ValidateUntilV2(reg[r], jitter, maxTTL, now)]
  /\ UNCHANGED <<codec, clock, pool, reg0, live, reg, target, opts, pc, idx, errs, trace>>

\* The caller calls v.ValidateNoUntil() on the registration itself.
ValidateNoUntilCall(r) ==
  /\ direct = NoCall
  /\ \A p \in RunIds : pc[p] = "idle"
  /\ reg[r].variant \in {"V1", "V2"}
  /\ direct' = [method |-> "ValidateNoUntil", r |-> r,
                err |-> IF reg[r].variant = "V1"
                        THEN ValidateNoUntilV1(reg[r]) ELSE ValidateNoUntilV2(reg[r])]
  /\ UNCHANGED <<codec, clock, pool, reg0, live, reg, target, opts, pc, idx, errs, trace>>

\* The real clock moves forward.
Tick ==
  /\ clock < MaxTime
  /\ clock' = clock + 1
  /\ UNCHANGED <<codec, pool, reg0, live, reg, target, opts, pc, idx, errs, trace, direct>>

\* ------------------------------------------------------ CustomDuration codec

\* A CustomDuration is an int64 count of nanoseconds.  It is held here as its
\* sign, its whole seconds and the nanoseconds within the second, the two
\* parts String() splits it into; the zero duration has no sign.
Microsecond == 1000
Millisecond == 1000 * Microsecond
Second == 1000 * Millisecond
Dur(neg, sec, nsec) == [neg |-> neg, sec |-> sec, nsec |-> nsec]
ZeroDuration == Dur(FALSE, 0, 0)

\* A text is the sequence of its characters.  The micro sign U+00B5, which
\* String() writes, and the Greek mu U+03BC are one character each.
Quote == "\""
Micro == "U+00B5"
Mu == "U+03BC"
DigitChars == <<"0", "1", "2", "3", "4", "5", "6", "7", "8", "9">>
IsDigit(c) == \E k \in DOMAIN DigitChars : DigitChars[k] = c
DigitValue(c) == (CHOOSE k \in DOMAIN DigitChars : DigitChars[k] = c) - 1

\* fmtInt: the decimal digits of v.
RECURSIVE fmtInt(_)
fmtInt(v) ==
  IF v < 10 THEN <<DigitChars[v + 1]>>
  ELSE Append(fmtInt(v \div 10), DigitChars[(v % 10) + 1])

\* fmtFrac(v, prec): the low prec digits of v after a decimal point, trailing
\* zeros left out, and nothing at all when they are all zero.
RECURSIVE fmtFracFrom(_, _, _)
fmtFracFrom(v, prec, print) ==
  IF prec = 0 THEN (IF print THEN <<".">> ELSE <<>>)
  ELSE LET digit == v % 10
           p == print \/ digit # 0
       IN  fmtFracFrom(v \div 10, prec - 1, p)
             \o (IF p THEN <<DigitChars[digit + 1]>> ELSE <<>>)

fmtFrac(v, prec) == fmtFracFrom(v, prec, FALSE)

\* time.Duration.String(): "0s"; below a second the largest of ns, us, ms
\* that leaves a non-zero integer part; from a second on, hours and minutes
\* only once they are reached, then the seconds with their fraction.
DurationString(d) ==
  LET m == d.sec \div 60
      h == m \div 60
      body ==
        IF d.sec = 0 /\ d.nsec = 0 THEN <<"0", "s">>
        ELSE IF d.sec = 0 /\ d.nsec < Microsecond
             THEN fmtInt(d.nsec) \o <<"n", "s">>
        ELSE IF d.sec = 0 /\ d.nsec < Millisecond
             THEN fmtInt(d.nsec \div Microsecond) \o fmtFrac(d.nsec, 3) \o <<Micro, "s">>
        ELSE IF d.sec = 0
             THEN fmtInt(d.nsec \div Millisecond) \o fmtFrac(d.nsec, 6) \o <<"m", "s">>
        ELSE (IF h > 0 THEN fmtInt(h) \o <<"h">> ELSE <<>>)
               \o (IF m > 0 THEN fmtInt(m % 60) \o <<"m">> ELSE <<>>)
               \o fmtInt(d.sec % 60) \o fmtFrac(d.nsec, 9) \o <<"s">>
  IN  IF d.neg THEN <<"-">> \o body ELSE body

\* CustomDuration.String
CustomDurationString(cd) == DurationString(cd)

\* CustomDuration.MarshalJSON: the text between two quotes.
MarshalJSON(cd) == <<Quote>> \o CustomDurationString(cd) \o <<Quote>>

\* leadingInt: the digits s opens with, as a number, and the rest of s.
RECURSIVE leadingIntFrom(_, _)
leadingIntFrom(s, x) ==
  IF s # <<>> /\ IsDigit(Head(s))
  THEN leadingIntFrom(Tail(s), x * 10 + DigitValue(Head(s)))
  ELSE [x |-> x, rem |-> s]

leadingInt(s) == leadingIntFrom(s, 0)

\* leadingFraction: the digits after the point as a number over scale.
RECURSIVE leadingFractionFrom(_, _, _)
leadingFractionFrom(s, x, scale) ==
  IF s # <<>> /\ IsDigit(Head(s))
  THEN leadingFractionFrom(Tail(s), x * 10 + DigitValue(Head(s)), scale * 10)
  ELSE [x |-> x, scale |-> scale, rem |-> s]

leadingFraction(s) == leadingFractionFrom(s, 0, 1)

\* The length of the unit s opens with: everything up to the next digit or
\* point.
RECURSIVE UnitLen(_)
UnitLen(s) ==
  IF s = <<>> \/ Head(s) = "." \/ IsDigit(Head(s)) THEN 0 ELSE 1 + UnitLen(Tail(s))

\* unitMap: a unit below the second in nanoseconds, the others in seconds.
UnitNames ==
  {<<"n", "s">>, <<"u", "s">>, <<Micro, "s">>, <<Mu, "s">>, <<"m", "s">>,
   <<"s">>, <<"m">>, <<"h">>}

unitMap(u) ==
  CASE u = <<"n", "s">> -> [sub |-> TRUE, n |-> 1]
    [] u \in {<<"u", "s">>, <<Micro, "s">>, <<Mu, "s">>} -> [sub |-> TRUE, n |-> Microsecond]
    [] u = <<"m", "s">> -> [sub |-> TRUE, n |-> Millisecond]
    [] u = <<"s">> -> [sub |-> FALSE, n |-> 1]
    [] u = <<"m">> -> [sub |-> FALSE, n |-> 60]
    [] u = <<"h">> -> [sub |-> FALSE, n |-> 3600]

\* d += v: the sum of two counts of nanoseconds.
AddDuration(a, b) ==
  [sec |-> a.sec + b.sec + ((a.nsec + b.nsec) \div Second),
   nsec |-> (a.nsec + b.nsec) % Second]

\* v *= unit
Whole(v, unit) ==
  IF unit.sub
  THEN [sec |-> v \div (Second \div unit.n), nsec |-> (v % (Second \div unit.n)) * unit.n]
  ELSE [sec |-> v * unit.n, nsec |-> 0]

\* uint64(float64(f) * (float64(unit) / scale)): the fraction f / scale of the
\* unit, cut to whole nanoseconds.
FractionDropped(f, scale, unit) == [sec |-> 0, nsec |-> 0]

Fraction(f, scale, unit) ==
  IF unit.sub
  THEN [sec |-> 0,
        nsec |-> IF scale <= unit.n THEN f * (unit.n \div scale)
                 ELSE f \div (scale \div unit.n)]
  ELSE [sec |-> (f * unit.n) \div scale,
        nsec |-> IF scale <= Second THEN ((f * unit.n) % scale) * (Second \div scale)
                 ELSE ((f * unit.n) % scale) \div (scale \div Second)]

\* The loop of time.ParseDuration over [0-9]*(\.[0-9]*)?[a-z]+ groups.
RECURSIVE parseGroups(_, _)
parseGroups(s, acc) ==
  IF s = <<>> THEN [ok |-> TRUE, d |-> acc]
  ELSE IF ~(Head(s) = "." \/ IsDigit(Head(s))) THEN [ok |-> FALSE, d |-> acc]
  ELSE LET i == leadingInt(s)
           pre == Len(i.rem) # Len(s)
           dot == i.rem # <<>> /\ Head(i.rem) = "."
           fr == IF dot THEN leadingFraction(Tail(i.rem))
                 ELSE [x |-> 0, scale |-> 1, rem |-> i.rem]
           post == dot /\ Len(fr.rem) # Len(i.rem) - 1
           n == UnitLen(fr.rem)
           u == SubSeq(fr.rem, 1, n)
       IN  IF (~pre /\ ~post) \/ n = 0 \/ u \notin UnitNames
           THEN [ok |-> FALSE, d |-> acc]
           ELSE parseGroups(SubSeq(fr.rem, n + 1, Len(fr.rem)),
                            AddDuration(AddDuration(acc, Whole(i.x, unitMap(u))),
                                        Fraction(fr.x, fr.scale, unitMap(u))))

\* time.ParseDuration: an optional sign, then "0" or one group at least.
ParseDuration(s0) ==
  LET signed == s0 # <<>> /\ Head(s0) \in {"-", "+"}
      s == IF signed THEN Tail(s0) ELSE s0
      r == parseGroups(s, [sec |-> 0, nsec |-> 0])
  IN  IF s = <<"0">> THEN [ok |-> TRUE, d |-> ZeroDuration]
      ELSE IF s = <<>> \/ ~r.ok THEN [ok |-> FALSE, d |-> ZeroDuration]
      ELSE [ok |-> TRUE,
            d |-> Dur(signed /\ Head(s0) = "-" /\ (r.d.sec # 0 \/ r.d.nsec # 0),
                      r.d.sec, r.d.nsec)]

\* strconv.ParseInt(string(b), 10, 64): an optional sign and digits only.
ParseInt(b) ==
  LET signed == b # <<>> /\ Head(b) \in {"-", "+"}
      s == IF signed THEN Tail(b) ELSE b
      i == leadingInt(s)
  IN  IF s = <<>> \/ i.rem # <<>> THEN [ok |-> FALSE, neg |-> FALSE, x |-> 0]
      ELSE [ok |-> TRUE, neg |-> signed /\ Head(b) = "-" /\ i.x # 0, x |-> i.x]

\* &InvalidDurationError{Value: string(b)}
InvalidDurationError(b) == [kind |-> "InvalidDurationError", Value |-> b]

\* (*CustomDuration).UnmarshalJSON on the receiver cd: a quoted text that
\* parses as a duration, else a whole number of seconds, else an error that
\* leaves cd as it was.
UnmarshalJSON(cd, b) ==
  LET quoted == Head(b) = Quote
      p == IF quoted THEN ParseDuration(SubSeq(b, 2, Len(b) - 1))
           ELSE [ok |-> FALSE, d |-> ZeroDuration]
      i == ParseInt(b)
  IN  IF p.ok THEN [err |-> Nil, cd |-> p.d]
      ELSE IF i.ok THEN [err |-> Nil, cd |-> Dur(i.neg, i.x, 0)]
      ELSE [err |-> InvalidDurationError(b), cd |-> cd]

\* The codec at rest.
CodecIdle == [pc |-> "idle", from |-> "none", cd |-> ZeroDuration, b |-> <<>>,
              err |-> Nil, out |-> ZeroDuration, b2 |-> <<>>]

\* cd.MarshalJSON() of a value.
Encode ==
  /\ codec.pc = "value"
  /\ codec' = [codec EXCEPT !.pc = "encoded", !.b = MarshalJSON(codec.cd)]
  /\ UNCHANGED <<clock, pool, reg0, live, reg, target, opts, pc, idx, errs, trace, direct>>

\* out.UnmarshalJSON(b) of the bytes at hand, into a zero CustomDuration.
Decode ==
  /\ codec.pc = "encoded"
  /\ LET r == UnmarshalJSON(ZeroDuration, codec.b)
     IN  codec' = [codec EXCEPT !.pc = "decoded", !.err = r.err, !.out = r.cd]
  /\ UNCHANGED <<clock, pool, reg0, live, reg, target, opts, pc, idx, errs, trace, direct>>

\* out.MarshalJSON() of what was decoded.
Reencode ==
  /\ codec.pc = "decoded"
  /\ codec.err = Nil
  /\ codec' = [codec EXCEPT !.pc = "done", !.b2 = MarshalJSON(codec.out)]
  /\ UNCHANGED <<clock, pool, reg0, live, reg, target, opts, pc, idx, errs, trace, direct>>

\* ------------------------------------------------------------- initial states

\* A V1 registration with only the fields of one concern set.
V1Events(events) == RegV1(events, 1, 0, UrlEmpty, UrlEmpty, <<>>, NilFunc)
V1Expiry(duration, until, nowFunc) ==
  RegV1(<<"Offline">>, duration, until, UrlEmpty, UrlEmpty, <<>>, nowFunc)
V1Urls(failureURL, receiverURL, altURLs) ==
  RegV1(<<"Offline">>, 1, 0, failureURL, receiverURL, altURLs, NilFunc)

\* The caller combines failing and passing rules in one list.
PipelinePool ==
  {NilOption, Error(Nil), Error(ErrInvalidInput), Error(ErrCaller), AtLeastOneEvent}
PipelineRegs == {V1Events(<<>>), V1Events(<<"Offline">>), RegV2(<<>>, 0, UrlEmpty, <<>>), NoReg}

\* The caller bounds the expiry, with and without a clock of its own.
ExpiryPool ==
  {ValidateRegistrationDuration(t) : t \in TTLs} \cup {ProvideTimeNowFunc(f) : f \in ClockFuncs}
ExpiryRegs ==
  {V1Expiry(d, u, NilFunc) : d \in Durations, u \in Instants}
    \cup {V1Expiry(0, u, mockNow) : u \in Instants}
    \cup {RegV2(<<"Offline">>, e, UrlEmpty, <<>>) : e \in Instants} \cup {NoReg}

\* The caller requires the patterns to compile.
RegexPool == {AtLeastOneEvent, EventRegexMustCompile, DeviceIDRegexMustCompile}
PatternLists == {<<>>, <<"event.*">>, <<"event.*", RegexBad>>}
RegexRegs ==
  {[V1Events(e) EXCEPT !.DeviceID = d] : e \in PatternLists, d \in PatternLists}
    \cup {RegV2(m, MaxTime, UrlEmpty, <<>>) : m \in PatternLists} \cup {NoReg}

\* The caller forbids Until, next to an unbounded expiry check.
NoUntilPool == {NoUntil, ValidateRegistrationDuration(0)}

\* The caller checks the URLs, with and without a checker.
UrlPool ==
  UNION {{ProvideFailureURLValidator(c), ProvideReceiverURLValidator(c),
          ProvideAlternativeURLValidator(c)} : c \in {NilChecker, HTTPSChecker}}
AltLists == {<<>>, <<UrlGood>>, <<UrlMalformed>>, <<UrlGood, UrlBad>>, <<UrlBad, UrlMalformed>>}
UrlRegs ==
  {V1Urls(f, r, a) : f \in Urls, r \in {UrlGood, UrlMalformed}, a \in AltLists}
    \cup {RegV2(<<"Offline">>, MaxTime, f, a) : f \in Urls, a \in AltLists} \cup {NoReg}

Scenarios ==
  {[pool |-> PipelinePool, regs |-> PipelineRegs],
   [pool |-> ExpiryPool, regs |-> ExpiryRegs],
   [pool |-> NoUntilPool, regs |-> ExpiryRegs],
   [pool |-> RegexPool, regs |-> RegexRegs],
   [pool |-> UrlPool, regs |-> UrlRegs]}

\* The caller validates twice with one list: a bounded expiry check and a
\* clock of its own.
TwoRunPool == {ValidateRegistrationDuration(MaxTTL), ProvideTimeNowFunc(mockNow)}
TwoRunRegs == {V1Expiry(0, u, NilFunc) : u \in Instants}

\* One call on one registration.
InitOneRun ==
  /\ \E s \in Scenarios :
       /\ pool = s.pool
       /\ \E r \in s.regs : reg = [x \in RegIds |-> IF x = "r1" THEN r ELSE NoReg]
  /\ live = {"a"}
  /\ target = [p \in RunIds |-> "r1"]

\* Two calls with one list: on one registration, or on one each.
InitTwoRuns ==
  /\ pool = TwoRunPool
  /\ live = RunIds
  /\ \/ /\ target = [p \in RunIds |-> "r1"]
        /\ \E r \in TwoRunRegs \cup {V1Expiry(0, u, mockNow) : u \in Instants} :
             reg = [x \in RegIds |-> IF x = "r1" THEN r ELSE NoReg]
     \/ /\ target = [p \in RunIds |-> IF p = "a" THEN "r1" ELSE "r2"]
        /\ reg \in [RegIds -> TwoRunRegs]

Init ==
  /\ clock \in 1..MaxTime
  /\ InitOneRun \/ InitTwoRuns
  /\ reg0 = reg
  /\ opts = [p \in RunIds |-> <<>>]
  /\ pc = [p \in RunIds |-> "idle"]
  /\ idx = [p \in RunIds |-> 1]
  /\ errs = [p \in RunIds |-> Nil]
  /\ trace = [p \in RunIds |-> <<>>]
  /\ direct = NoCall
  /\ codec = CodecIdle

Next ==
  \/ \E p \in RunIds : Call(p)
  \/ \E p \in RunIds : CallAgain(p)
  \/ \E p \in RunIds : CallOther(p)
  \/ \E p \in RunIds : Loop(p)
  \/ \E p \in RunIds : Return(p)
  \/ \E r \in RegIds : ValidateDuration(r)
  \/ \E r \in RegIds : ValidateOneEventCall(r)
  \/ \E r \in RegIds : ValidateFailureURLCall(r)
  \/ \E r \in RegIds : ValidateReceiverURLCall(r)
  \/ \E r \in RegIds : ValidateAltURLCall(r)
  \/ \E r \in RegIds : ValidateUntilCall(r)
  \/ \E r \in RegIds : ValidateNoUntilCall(r)
  \/ Tick

Spec == Init /\ [][Next]_vars

\* The durations rendered: every sign, up to MaxHours hours, the minutes,
\* seconds and nanoseconds at the edges of each unit.
SubSeconds ==
  {0, 1, 999, Microsecond, Microsecond + 1, 1500, Millisecond - 1, Millisecond,
   1500 * Microsecond, 100 * Millisecond, Second - 1}
WholeSeconds ==
  {(h * 3600) + (m * 60) + x : h \in 0..MaxHours, m \in {0, 1, 59}, x \in {0, 1, 59}}
DurationValues ==
  {d \in {Dur(neg, sec, nsec) : neg \in BOOLEAN, sec \in WholeSeconds, nsec \in SubSeconds} :
     d.neg => (d.sec # 0 \/ d.nsec # 0)}

\* The bytes decoded that no MarshalJSON wrote: whole seconds, other spellings
\* of a duration, and bytes that are neither.
RawInputs ==
  {<<"5">>, <<"-", "5">>, <<"0">>, <<Quote, "0", Quote>>, <<Quote, "5", Quote>>,
   <<Quote, "1", ".", "5", "h", Quote>>, <<Quote, "1", "0", "0", "0", "m", "s", Quote>>,
   <<Quote, "1", Mu, "s", Quote>>, <<Quote, "+", "9", "0", "s", Quote>>,
   <<Quote, ".", "5", "s", Quote>>, <<Quote, "5", "x", Quote>>, <<Quote, Quote>>,
   <<"5", "m">>, <<"x">>}

InitDuration ==
  /\ clock = 1
  /\ pool = {}
  /\ live = {}
  /\ reg = [x \in RegIds |-> NoReg]
  /\ target = [p \in RunIds |-> "r1"]
  /\ reg0 = reg
  /\ opts = [p \in RunIds |-> <<>>]
  /\ pc = [p \in RunIds |-> "idle"]
  /\ idx = [p \in RunIds |-> 1]
  /\ errs = [p \in RunIds |-> Nil]
  /\ trace = [p \in RunIds |-> <<>>]
  /\ direct = NoCall
  /\ \/ \E d \in DurationValues :
          codec = [CodecIdle EXCEPT !.pc = "value", !.from = "value", !.cd = d]
     \/ \E b \in RawInputs :
          codec = [CodecIdle EXCEPT !.pc = "encoded", !.from = "bytes", !.b = b]

NextDuration == Encode \/ Decode \/ Reencode

SpecDuration == InitDuration /\ [][NextDuration]_vars

TypeOK ==
  /\ clock \in 1..MaxTime
  /\ \A p \in RunIds : pc[p] \in {"idle", "loop", "done"}

\* ------------------------------------------------------------------ claims

\* The registration a run validates, and the option behind a trace entry.
V(p) == reg[target[p]]
Opt(p, k) == opts[p][trace[p][k].i]

\* The positions of the non-nil options among the first n of a list.
RECURSIVE NonNilUpTo(_, _)
NonNilUpTo(l, n) ==
  IF n = 0 THEN <<>>
  ELSE IF l[n] = NilOption THEN NonNilUpTo(l, n - 1)
  ELSE Append(NonNilUpTo(l, n - 1), n)

Min(a, b) == IF a < b THEN a ELSE b

Sentinels == {ErrInvalidInput, ErrInvalidType, ErrInvalidOption, ErrUknownType, ErrCaller}

\* Every expiry check made on a V1 registration, by the option or by the
\* method itself: the registration, the ttl, the clock installed at the check,
\* the instant the active clock gave, and the error returned.
ExpiryChecks ==
  {[v |-> V(p), ttl |-> Opt(p, k).ttl, err |-> trace[p][k].err, via |-> "option",
    nowFunc |-> trace[p][k].nowFunc,
    now |-> ActiveNow(trace[p][k].nowFunc, trace[p][k].real)] :
      <<p, k>> \in {x \in RunIds \X (1..MaxOpts) :
                      /\ x[2] \in DOMAIN trace[x[1]]
                      /\ V(x[1]).variant = "V1"
                      /\ Opt(x[1], x[2]).op = "ValidateRegistrationDuration"}}
  \cup
  (IF direct.method = "ValidateDuration" /\ reg[direct.r].variant = "V1"
   THEN {[v |-> reg[direct.r], ttl |-> direct.ttl, err |-> direct.err, via |-> "method",
          nowFunc |-> reg[direct.r].nowFunc,
          now |-> ActiveNow(reg[direct.r].nowFunc, direct.real)]}
   ELSE {})

\* C1: Validate applies every non-nil option of the list exactly once, in list
\* order, and goes on after an option that failed: at every point of a run
\* the options applied so far are exactly the non-nil ones before the loop
\* position, in order, and at the return that is all of them.
C1_AppliesEveryOptionInOrder ==
  \A p \in RunIds :
    pc[p] # "idle" =>
      /\ [k \in DOMAIN trace[p] |-> trace[p][k].i]
           = NonNilUpTo(opts[p], Min(idx[p] - 1, Len(opts[p])))
      /\ pc[p] = "done" => idx[p] = Len(opts[p]) + 1

\* C1 witness: a finished run whose first option failed and whose second
\* option was applied all the same.
C1_Witness ==
  \E p \in RunIds :
    /\ pc[p] = "done"
    /\ Len(trace[p]) = 2
    /\ trace[p][1].err # Nil

\* C2: the error Validate returns matches, by errors.Is, the error of every
\* option that failed and every sentinel that error matches.
C2_AggregateMatchesEveryFailure ==
  \A p \in RunIds :
    pc[p] = "done" =>
      \A k \in DOMAIN trace[p] :
        trace[p][k].err # Nil =>
          /\ errorsIs(errs[p], trace[p][k].err)
          /\ \A t \in Sentinels : errorsIs(trace[p][k].err, t) => errorsIs(errs[p], t)

\* C2 witness: a finished run in which two options failed with different
\* underlying errors.
C2_Witness ==
  \E p \in RunIds :
    /\ pc[p] = "done"
    /\ Len(trace[p]) = 2
    /\ errorsIs(trace[p][1].err, ErrCaller)
    /\ errorsIs(trace[p][2].err, ErrInvalidInput)
    /\ ~errorsIs(trace[p][1].err, ErrInvalidInput)

\* C3: Validate returns nil exactly when every non-nil option returned nil; a
\* nil entry is skipped, and a list with no non-nil entry yields nil.
C3_NilIffAllOptionsPass ==
  \A p \in RunIds :
    pc[p] = "done" =>
      /\ errs[p] = Nil <=> \A k \in DOMAIN trace[p] : trace[p][k].err = Nil
      /\ (\A j \in DOMAIN opts[p] : opts[p][j] = NilOption) => errs[p] = Nil /\ trace[p] = <<>>

\* C3 witness: a finished run that skipped a nil entry, applied the other
\* option, which passed, and returned nil.
C3_Witness ==
  \E p \in RunIds :
    /\ pc[p] = "done"
    /\ \E j \in DOMAIN opts[p] : opts[p][j] = NilOption
    /\ Len(trace[p]) = 1
    /\ errs[p] = Nil

\* The two orders of the expiry option and the clock option, on a finished run
\* against a V1 registration with only Until set, at exactly now + ttl.
ExpiryThenClock(p, now, ttl) ==
  /\ pc[p] = "done"
  /\ opts[p] = <<ValidateRegistrationDuration(ttl), ProvideTimeNowFunc(now)>>
  /\ V(p).variant = "V1" /\ V(p).Duration = 0 /\ V(p).Until = now + ttl
  /\ trace[p][1].nowFunc = NilFunc

ClockThenExpiry(p, now, ttl) ==
  /\ pc[p] = "done"
  /\ opts[p] = <<ProvideTimeNowFunc(now), ValidateRegistrationDuration(ttl)>>
  /\ V(p).variant = "V1" /\ V(p).Duration = 0 /\ V(p).Until = now + ttl

\* C4 as stated: with Until = now + ttl (ttl > 0, as in the test), the list
\* [expiry, clock] fails whenever the real clock differs from now, and the
\* list [clock, expiry] passes.
C4_Original ==
  \A p \in RunIds, now \in ClockFuncs \ {NilFunc}, ttl \in TTLs :
    ttl > 0 =>
      /\ ExpiryThenClock(p, now, ttl) /\ trace[p][1].real # now => errs[p] # Nil
      /\ ClockThenExpiry(p, now, ttl) => errs[p] = Nil

\* C4 amended: the clock option only affects the options after it.  With
\* Until = now + ttl and ttl > 0, the list [expiry, clock] on a registration
\* with no clock installed is judged by the real clock and fails exactly when
\* the real clock reads before now or after now + ttl; the list
\* [clock, expiry] passes whatever the real clock reads.
C4_ClockOverrideOrdering ==
  \A p \in RunIds, now \in ClockFuncs \ {NilFunc}, ttl \in TTLs :
    ttl > 0 =>
      /\ ExpiryThenClock(p, now, ttl) =>
           (errs[p] # Nil <=> (trace[p][1].real < now \/ trace[p][1].real > now + ttl))
      /\ ClockThenExpiry(p, now, ttl) => errs[p] = Nil

\* C4 witness: the list [expiry, clock] failed against the real clock, which
\* had run past now + ttl.
C4_Witness ==
  \E p \in RunIds, now \in ClockFuncs \ {NilFunc}, ttl \in TTLs :
    /\ ttl > 0
    /\ ExpiryThenClock(p, now, ttl)
    /\ trace[p][1].real > now + ttl
    /\ errorsIs(errs[p], ErrInvalidInput)

\* C4 witness of the other order: the list [clock, expiry] passed while the
\* real clock had run past now + ttl.
C4_WitnessClockFirst ==
  \E p \in RunIds, now \in ClockFuncs \ {NilFunc}, ttl \in TTLs :
    /\ ttl > 0
    /\ ClockThenExpiry(p, now, ttl)
    /\ trace[p][2].real > now + ttl
    /\ errs[p] = Nil

\* C5: on a V1 registration the expiry check fails with ErrInvalidInput
\* whenever Duration and Until are both set and whenever neither is, for
\* every ttl and every reading of the clock.
C5_ExactlyOneOf ==
  \A c \in ExpiryChecks :
    (c.v.Duration # 0) = (c.v.Until # 0) => errorsIs(c.err, ErrInvalidInput)

\* C5 witness: a check of a registration with both set, a negative Duration
\* and an Until inside the bound, by the option.
C5_Witness ==
  \E c \in ExpiryChecks :
    /\ c.via = "option"
    /\ c.v.Duration < 0 /\ c.v.Until # 0
    /\ c.v.Until >= c.now
    /\ errorsIs(c.err, ErrInvalidInput)

\* C5 witness of the other case: neither set.
C5_WitnessNeither ==
  \E c \in ExpiryChecks :
    c.via = "option" /\ c.v.Duration = 0 /\ c.v.Until = 0 /\ errorsIs(c.err, ErrInvalidInput)

\* C6: with only Duration set and ttl > 0 the expiry check fails, with
\* ErrInvalidInput, exactly when Duration > ttl; Duration = ttl passes.
C6_DurationBoundInclusive ==
  \A c \in ExpiryChecks :
    c.v.Until = 0 /\ c.v.Duration # 0 /\ c.ttl > 0 =>
      /\ c.err # Nil <=> c.v.Duration > c.ttl
      /\ c.err # Nil => errorsIs(c.err, ErrInvalidInput)

\* C6 witness: Duration equal to a positive ttl passed the option.
C6_Witness ==
  \E c \in ExpiryChecks :
    c.via = "option" /\ c.v.Until = 0 /\ c.ttl > 0 /\ c.v.Duration = c.ttl /\ c.err = Nil

\* C7: with ttl <= 0 the expiry check puts no upper bound on Duration or on
\* Until: it fails exactly when neither or both are set or Until is already
\* past.
C7_NoBoundWhenTTLNotPositive ==
  \A c \in ExpiryChecks :
    c.ttl <= 0 =>
      (c.err # Nil <=>
         \/ (c.v.Duration # 0) = (c.v.Until # 0)
         \/ c.v.Until # 0 /\ c.v.Until < c.now)

\* C7 witness: a negative ttl let the longest Duration pass.
C7_Witness ==
  \E c \in ExpiryChecks :
    c.via = "option" /\ c.ttl < 0 /\ c.v.Until = 0 /\ c.v.Duration = MaxTTL + 1 /\ c.err = Nil

\* C7 witness for Until: a ttl of zero let an Until far after now pass.
C7_WitnessUntil ==
  \E c \in ExpiryChecks :
    c.via = "option" /\ c.ttl = 0 /\ c.v.Duration = 0 /\ c.v.Until > c.now + 1 /\ c.err = Nil

\* C8: with only Until set, and now read from the active clock, the expiry
\* check fails as already expired exactly when Until < now and, when ttl > 0,
\* as too long exactly when Until > now + ttl; it passes otherwise, so
\* Until = now and Until = now + ttl pass.
C8_UntilBounds ==
  \A c \in ExpiryChecks :
    c.v.Duration = 0 /\ c.v.Until # 0 =>
      /\ MsgExpired \in Messages(c.err) <=> c.v.Until < c.now
      /\ MsgTooLong \in Messages(c.err) <=> (c.ttl > 0 /\ c.v.Until > c.now + c.ttl)
      /\ c.err = Nil <=> ~(c.v.Until < c.now) /\ ~(c.ttl > 0 /\ c.v.Until > c.now + c.ttl)

\* C8 witness: Until exactly at now + ttl, now given by an installed clock,
\* passed the option.
C8_Witness ==
  \E c \in ExpiryChecks :
    /\ c.via = "option" /\ c.v.Duration = 0 /\ c.ttl > 0
    /\ c.nowFunc # NilFunc /\ c.v.Until = c.now + c.ttl
    /\ c.err = Nil

\* C8 witness of the lower boundary: Until = now passed.
C8_WitnessNow ==
  \E c \in ExpiryChecks :
    c.via = "option" /\ c.v.Duration = 0 /\ c.v.Until # 0 /\ c.v.Until = c.now /\ c.err = Nil

\* C9 as stated: with both Duration and Until set and Until already past,
\* the error ValidateRegistrationDuration returns holds both the only-one
\* failure and the already-expired failure.
C9_OptionJoinsFailures ==
  \A c \in ExpiryChecks :
    c.via = "option" /\ c.v.Duration # 0 /\ c.v.Until # 0 /\ c.v.Until < c.now =>
      {MsgOnlyOne, MsgExpired} \subseteq Messages(c.err)

\* C9, the method: (*RegistrationV1).ValidateDuration does join them.
C9_MethodJoinsFailures ==
  \A c \in ExpiryChecks :
    c.via = "method" /\ c.v.Duration # 0 /\ c.v.Until # 0 /\ c.v.Until < c.now =>
      {MsgOnlyOne, MsgExpired} \subseteq Messages(c.err)

\* C9 witness of the method: it returned both failures.
C9_MethodWitness ==
  \E c \in ExpiryChecks :
    c.via = "method" /\ {MsgOnlyOne, MsgExpired} \subseteq Messages(c.err)

\* The URL options.
UrlOps ==
  {"ProvideFailureURLValidator", "ProvideReceiverURLValidator", "ProvideAlternativeURLValidator"}

\* C10: a URL option built with a nil checker returns nil for every
\* registration, whatever its URL fields hold.
C10_NilCheckerPasses ==
  \A p \in RunIds :
    \A k \in DOMAIN trace[p] :
      Opt(p, k).op \in UrlOps /\ Opt(p, k).checker = NilChecker => trace[p][k].err = Nil

\* C10 witness: the alternative-URL option with a nil checker passed a V1
\* registration whose alternative URL is malformed, and so did a second URL
\* option with a nil checker, on a malformed failure and receiver URL.
C10_Witness ==
  \E p \in RunIds :
    /\ Len(trace[p]) = 2
    /\ Opt(p, 1).op = "ProvideAlternativeURLValidator" /\ Opt(p, 1).checker = NilChecker
    /\ Opt(p, 2).op \in UrlOps \ {"ProvideAlternativeURLValidator"}
    /\ Opt(p, 2).checker = NilChecker
    /\ V(p).variant = "V1"
    /\ V(p).AlternativeURLs = <<UrlMalformed>>
    /\ V(p).FailureURL = UrlMalformed /\ V(p).ReceiverURL = UrlMalformed
    /\ trace[p][1].err = Nil /\ trace[p][2].err = Nil

\* Every application of an option by a run: the run, the position in its
\* trace, the option, the registration and the error returned.
Applications ==
  {[p |-> x[1], k |-> x[2], o |-> Opt(x[1], x[2]), v |-> V(x[1]),
    err |-> trace[x[1]][x[2]].err] :
      x \in {y \in RunIds \X (1..MaxOpts) : y[2] \in DOMAIN trace[y[1]]}}

\* The alternative-URL option with a checker, applied to a RegistrationV2.
AltOnV2 ==
  {a \in Applications :
     /\ a.o.op = "ProvideAlternativeURLValidator" /\ a.o.checker # NilChecker
     /\ a.v.variant = "V2"}

\* C11 as stated: ProvideAlternativeURLValidator with a non-nil checker on a
\* RegistrationV2 returns an error matching ErrInvalidOption, the kind the
\* test expects, that does not match ErrInvalidInput and is not nil.
C11_AltOnV2ReturnsInvalidOption ==
  \A a \in AltOnV2 :
    /\ a.err # Nil
    /\ errorsIs(a.err, ErrInvalidOption)
    /\ ~errorsIs(a.err, ErrInvalidInput)

\* C11, what the option does return: an error matching ErrInvalidType, that
\* matches neither ErrInvalidOption nor ErrInvalidInput.
C11_AltOnV2ReturnsInvalidType ==
  \A a \in AltOnV2 :
    /\ errorsIs(a.err, ErrInvalidType)
    /\ ~errorsIs(a.err, ErrInvalidOption)
    /\ ~errorsIs(a.err, ErrInvalidInput)

\* C11 case reached: the option was applied to a RegistrationV2 whose receiver
\* URLs the checker would reject.
C11_Reached ==
  \E a \in AltOnV2 : a.v.ReceiverURLs = <<UrlGood, UrlBad>> /\ pc[a.p] = "done"

\* The clock option applied to a RegistrationV2.
ClockOnV2 ==
  {a \in Applications : a.o.op = "ProvideTimeNowFunc" /\ a.v.variant = "V2"}

\* C12: ProvideTimeNowFunc applied to a RegistrationV2 returns a non-nil error
\* that matches ErrInvalidOption and does not match ErrInvalidInput, and the
\* step that applies it leaves every registration as it was.
C12_ClockOnV2Rejected ==
  [][\A p \in RunIds :
       (/\ pc[p] = "loop" /\ idx[p] <= Len(opts[p]) /\ idx'[p] = idx[p] + 1
        /\ opts[p][idx[p]].op = "ProvideTimeNowFunc"
        /\ reg[target[p]].variant = "V2")
       => /\ reg' = reg
          /\ Len(trace'[p]) = Len(trace[p]) + 1
          /\ LET err == trace'[p][Len(trace'[p])].err
             IN  /\ err # Nil
                 /\ errorsIs(err, ErrInvalidOption)
                 /\ ~errorsIs(err, ErrInvalidInput)]_vars

\* C12 witness: a run applied the clock option to a RegistrationV2 and
\* returned an error matching ErrInvalidOption.
C12_Witness ==
  \E a \in ClockOnV2 :
    /\ pc[a.p] = "done"
    /\ errorsIs(a.err, ErrInvalidOption)
    /\ errorsIs(errs[a.p], ErrInvalidOption)

\* The options that check a rule of the registration.
RuleOps == {"AtLeastOneEvent", "ValidateRegistrationDuration"} \cup UrlOps

\* Every rule violation reported for a V1 registration: the non-nil errors the
\* rule options returned, and the non-nil error of a method called directly.
V1Violations ==
  {a.err : a \in {b \in Applications :
                    b.v.variant = "V1" /\ b.o.op \in RuleOps /\ b.err # Nil}}
  \cup (IF direct # NoCall /\ reg[direct.r].variant = "V1" /\ direct.err # Nil
        THEN {direct.err} ELSE {})

\* C13 as stated: every rule violation reported for a V1 registration matches
\* ErrInvalidInput, a URL the checker rejected included.
C13_V1ViolationsAreInvalidInput ==
  \A e \in V1Violations : errorsIs(e, ErrInvalidInput)

\* C13, the options alone: every non-nil error a rule option returns for a V1
\* registration matches ErrInvalidInput.
C13_OptionViolationsAreInvalidInput ==
  \A a \in Applications :
    a.v.variant = "V1" /\ a.o.op \in RuleOps /\ a.err # Nil => errorsIs(a.err, ErrInvalidInput)

\* C13 case reached: the failure-URL option rejected a V1 registration's URL.
C13_OptionReached ==
  \E a \in Applications :
    /\ a.v.variant = "V1" /\ a.o.op = "ProvideFailureURLValidator"
    /\ a.v.FailureURL = UrlBad /\ errorsIs(a.err, ErrInvalidInput)

\* The URL validations in which the checker rejected a URL: the error returned
\* and the checker's own error.
UrlRejections ==
  {[err |-> a.err, reason |-> ErrChecker, via |-> a.o.op] :
     a \in {b \in Applications :
              /\ b.o.op \in UrlOps /\ b.o.checker # NilChecker
              /\ b.v.variant = "V1" /\ b.err # Nil}}
  \cup (IF /\ direct.method \in {"ValidateFailureURL", "ValidateReceiverURL", "ValidateAltURL"}
           /\ reg[direct.r].variant = "V1" /\ direct.err # Nil
        THEN {[err |-> direct.err, reason |-> ErrChecker, via |-> direct.method]}
        ELSE {})

\* C14 as stated: when the checker rejects a URL, the error the receiver-URL,
\* failure-URL and alternative-URL validations return wraps the checker's own
\* error, which errors.Is still finds in it.
C14_CheckerErrorWrapped ==
  \A x \in UrlRejections : errorsIs(x.err, x.reason)

\* C14, the one validation that does wrap: ValidateFailureURL called on the
\* registration itself.
C14_FailureURLMethodWraps ==
  direct.method = "ValidateFailureURL" /\ direct.err # Nil => errorsIs(direct.err, ErrChecker)

\* C14 case reached: ValidateFailureURL rejected a URL.
C14_MethodReached ==
  direct.method = "ValidateFailureURL" /\ direct.err # Nil

\* C15: (*RegistrationV1).ValidateUntil(jitter, maxTTL, now) returns an error
\* matching ErrInvalidInput exactly when maxTTL < 0, or jitter < 0, or Until
\* is set and strictly after now() + maxTTL + jitter, with now() the real
\* clock when now is nil; otherwise it returns nil.
C15_ValidateUntil ==
  direct.method = "ValidateUntil" /\ reg[direct.r].variant = "V1" =>
    LET v == reg[direct.r]
        limit == ActiveNow(direct.now, direct.real) + direct.maxTTL + direct.jitter
        fails == \/ direct.maxTTL < 0
                 \/ direct.jitter < 0
                 \/ v.Until # 0 /\ v.Until > limit
    IN  /\ fails <=> errorsIs(direct.err, ErrInvalidInput)
        /\ ~fails <=> direct.err = Nil

\* C15 witness: Until exactly at the limit, with a jitter, passed against the
\* real clock.
C15_Witness ==
  /\ direct.method = "ValidateUntil" /\ reg[direct.r].variant = "V1"
  /\ direct.now = NilFunc /\ direct.jitter > 0 /\ direct.maxTTL >= 0
  /\ reg[direct.r].Until = direct.real + direct.maxTTL + direct.jitter
  /\ direct.err = Nil

\* C15 witness of the argument check: a negative jitter was rejected although
\* Until is unset.
C15_WitnessNegative ==
  /\ direct.method = "ValidateUntil" /\ reg[direct.r].variant = "V1"
  /\ direct.jitter < 0 /\ direct.maxTTL >= 0 /\ reg[direct.r].Until = 0
  /\ errorsIs(direct.err, ErrInvalidInput)

\* Every NoUntil check made on a V1 registration, by the option or by
\* ValidateNoUntil called on the registration itself.
NoUntilChecks ==
  {[v |-> a.v, err |-> a.err, via |-> "option"] :
     a \in {b \in Applications : b.o.op = "NoUntil" /\ b.v.variant = "V1"}}
  \cup (IF direct.method = "ValidateNoUntil" /\ reg[direct.r].variant = "V1"
        THEN {[v |-> reg[direct.r], err |-> direct.err, via |-> "method"]} ELSE {})

\* C16: NoUntil on a V1 registration returns an error matching ErrInvalidInput
\* exactly when Until is set, and nil otherwise, whatever Duration, the
\* installed clock and the real clock are.
C16_NoUntil ==
  \A c \in NoUntilChecks :
    /\ c.v.Until # 0 <=> errorsIs(c.err, ErrInvalidInput)
    /\ c.v.Until = 0 <=> c.err = Nil

\* C16 witness: the option rejected a registration with Until and Duration
\* both set, on a run that had finished.
C16_Witness ==
  \E a \in Applications :
    /\ a.o.op = "NoUntil" /\ a.v.variant = "V1" /\ pc[a.p] = "done"
    /\ a.v.Until # 0 /\ a.v.Duration # 0
    /\ errorsIs(a.err, ErrInvalidInput)

\* C16 witness of the pass: Until unset, Duration unset, a clock installed.
C16_WitnessPass ==
  \E a \in Applications :
    /\ a.o.op = "NoUntil" /\ a.v.variant = "V1"
    /\ a.v.Until = 0 /\ a.v.Duration = 0 /\ a.v.nowFunc # NilFunc
    /\ a.err = Nil

\* Two finished runs on one registration with one option list, whose expiry
\* checks read the same instants from the real clock.
SameCallTwice(p, q) ==
  /\ p # q /\ pc[p] = "done" /\ pc[q] = "done"
  /\ target[p] = target[q] /\ opts[p] = opts[q]
  /\ Len(trace[p]) = Len(trace[q])
  /\ \A k \in DOMAIN trace[p] : trace[p][k].real = trace[q][k].real

\* The clock override the registration held when a run applied its first
\* option.
ClockAtStart(p) == trace[p][1].nowFunc

Content(v) == IF v.variant = "V1" THEN [v EXCEPT !.nowFunc = NilFunc] ELSE v

\* C18: whatever options and runs have been applied, every registration holds
\* the content it was handed over with (events, matcher, URLs, Duration,
\* Until, Expires); a RegistrationV2 and a nil value are unchanged altogether,
\* and the one thing that may differ is the clock override of a RegistrationV1.
C18_ContentUnchanged ==
  \A r \in RegIds :
    /\ Content(reg[r]) = Content(reg0[r])
    /\ reg[r].variant # "V1" => reg[r] = reg0[r]

\* C18 witness: a finished run applied an expiry check and a clock option to a
\* V1 registration with Until set; the override changed and nothing else did.
C18_Witness ==
  \E p \in RunIds :
    /\ pc[p] = "done" /\ Len(trace[p]) = 2
    /\ Opt(p, 1).op = "ValidateRegistrationDuration" /\ Opt(p, 2).op = "ProvideTimeNowFunc"
    /\ V(p).variant = "V1" /\ V(p).Until # 0
    /\ V(p).nowFunc # reg0[target[p]].nowFunc
    /\ Content(V(p)) = Content(reg0[target[p]])

\* What a run returns when nothing else runs: its options applied in order to
\* the registration as it was handed over, each expiry check reading the
\* instant the run read from the real clock; and the registration it leaves.
RECURSIVE AloneFrom(_, _, _, _)
AloneFrom(p, k, v, acc) ==
  IF k > Len(trace[p]) THEN [err |-> acc, v |-> v]
  ELSE LET out == OptionValidate(Opt(p, k), v, trace[p][k].real)
       IN  AloneFrom(p, k + 1, out.v, IF out.err # Nil THEN errorsJoin(acc, out.err) ELSE acc)

Alone(p) == AloneFrom(p, 1, reg0[target[p]], Nil)

\* Runs on different registrations.
Apart(p, q) == p # q /\ target[p] # target[q]

\* C19: a run that shares its option list with a run on another registration,
\* the two interleaved in any way, has at every point of its loop and at its
\* return the result it has alone, and its registration is as it is alone.
C19_ConcurrentRunsDoNotInterfere ==
  \A p, q \in RunIds :
    Apart(p, q) /\ pc[p] # "idle" /\ pc[q] # "idle" /\ opts[p] = opts[q] =>
      /\ errs[p] = Alone(p).err
      /\ reg[target[p]] = Alone(p).v

\* C19 witness: two runs on different registrations are in the loop of the
\* same two-option list at the same time, one option applied each; the expiry
\* check failed for one registration and passed for the other.
C19_Witness ==
  \E p, q \in RunIds :
    /\ Apart(p, q) /\ opts[p] = opts[q] /\ Len(opts[p]) = 2
    /\ pc[p] = "loop" /\ pc[q] = "loop"
    /\ Len(trace[p]) = 1 /\ Len(trace[q]) = 1
    /\ Opt(p, 1).op = "ValidateRegistrationDuration"
    /\ errs[p] # Nil /\ errs[q] = Nil

\* The options that dispatch on the variant of the registration.
DispatchingOps ==
  RuleOps \cup {"NoUntil", "EventRegexMustCompile", "DeviceIDRegexMustCompile"}

\* The applications of a variant-dispatching option, the URL options with a
\* checker, to a value that is neither a RegistrationV1 nor a RegistrationV2.
OnNoRegistration ==
  {a \in Applications :
     /\ a.v = NoReg /\ a.o.op \in DispatchingOps
     /\ a.o.op \in UrlOps => a.o.checker # NilChecker}

\* C20 as stated: every variant-dispatching option applied to a value that is
\* neither a RegistrationV1 nor a RegistrationV2 returns an error matching
\* ErrInvalidType.
C20_NoRegistrationIsInvalidType ==
  \A a \in OnNoRegistration : errorsIs(a.err, ErrInvalidType)

\* The options written with an ErrInvalidType default case.
TypeSwitchOps ==
  DispatchingOps \ {"NoUntil", "ProvideAlternativeURLValidator"}

\* C20, the options whose type switch has the ErrInvalidType default case:
\* they return an error matching ErrInvalidType and never nil.
C20_TypeSwitchDefault ==
  \A a \in OnNoRegistration :
    a.o.op \in TypeSwitchOps => a.err # Nil /\ errorsIs(a.err, ErrInvalidType)

\* C20 case reached: a run applied two type-switch options to nil and returned
\* an error matching ErrInvalidType.
C20_Reached ==
  \E a \in OnNoRegistration :
    /\ a.o.op = "DeviceIDRegexMustCompile" /\ pc[a.p] = "done" /\ Len(trace[a.p]) = 2
    /\ errorsIs(errs[a.p], ErrInvalidType)

\* Every check for events made on a V1 registration, by the option or by
\* ValidateOneEvent called on the registration itself.
EventChecks ==
  {[v |-> a.v, err |-> a.err, via |-> "option"] :
     a \in {b \in Applications : b.o.op = "AtLeastOneEvent" /\ b.v.variant = "V1"}}
  \cup (IF direct.method = "ValidateOneEvent" /\ reg[direct.r].variant = "V1"
        THEN {[v |-> reg[direct.r], err |-> direct.err, via |-> "method"]} ELSE {})

\* C21: AtLeastOneEvent on a V1 registration returns an error matching
\* ErrInvalidInput exactly when the Events list is empty, and nil for every
\* non-empty Events list.
C21_AtLeastOneEvent ==
  \A c \in EventChecks :
    /\ Len(c.v.Events) = 0 <=> errorsIs(c.err, ErrInvalidInput)
    /\ Len(c.v.Events) # 0 <=> c.err = Nil

\* C21 witness: the option passed a registration with a single event.
C21_Witness ==
  \E c \in EventChecks : c.via = "option" /\ Len(c.v.Events) = 1 /\ c.err = Nil

\* C21 witness of the failure: the option rejected an empty Events list with
\* the zero-events message.
C21_WitnessEmpty ==
  \E c \in EventChecks :
    /\ c.via = "option" /\ c.v.Events = <<>>
    /\ errorsIs(c.err, ErrInvalidInput) /\ MsgZeroEvents \in Messages(c.err)

\* AtLeastOneEvent applied to a RegistrationV2.
EventsOnV2 ==
  {a \in Applications : a.o.op = "AtLeastOneEvent" /\ a.v.variant = "V2"}

\* C22 as stated: AtLeastOneEvent on a RegistrationV2 returns an error matching
\* ErrInvalidType whatever the Matcher list holds.
C22_EventsOnV2IsInvalidType ==
  \A a \in EventsOnV2 : errorsIs(a.err, ErrInvalidType)

\* C22, what the option with the inline type switch does: it checks the
\* Matcher list, returns an error matching ErrInvalidInput when it is empty
\* and nil otherwise, and never an error matching ErrInvalidType.
C22_EventsOnV2ChecksMatcher ==
  \A a \in EventsOnV2 :
    /\ Len(a.v.Matcher) = 0 <=> errorsIs(a.err, ErrInvalidInput)
    /\ Len(a.v.Matcher) # 0 <=> a.err = Nil
    /\ ~errorsIs(a.err, ErrInvalidType)

\* C22 case reached: the option passed a RegistrationV2 with a Matcher, and
\* the run returned nil.
C22_Reached ==
  \E a \in EventsOnV2 :
    Len(a.v.Matcher) # 0 /\ a.err = Nil /\ pc[a.p] = "done" /\ errs[a.p] = Nil

\* Every application of ValidateRegistrationDuration to a RegistrationV2: the
\* registration, the ttl, the instant time.Now() gave, and the error.
ExpiryChecksV2 ==
  {[v |-> V(x[1]), ttl |-> Opt(x[1], x[2]).ttl, now |-> trace[x[1]][x[2]].real,
    err |-> trace[x[1]][x[2]].err, p |-> x[1]] :
      x \in {y \in RunIds \X (1..MaxOpts) :
               /\ y[2] \in DOMAIN trace[y[1]]
               /\ V(y[1]).variant = "V2"
               /\ Opt(y[1], y[2]).op = "ValidateRegistrationDuration"}}

\* C23: ValidateRegistrationDuration on a RegistrationV2 returns an error
\* matching ErrInvalidInput exactly when the current time is after Expires and
\* nil otherwise (the current time equal to Expires passes), for every ttl.
C23_ExpiryV2 ==
  \A c \in ExpiryChecksV2 :
    /\ c.now > c.v.Expires <=> errorsIs(c.err, ErrInvalidInput)
    /\ c.now <= c.v.Expires <=> c.err = Nil

\* C23 witness: with the current time exactly at Expires and a positive ttl,
\* the option passed and the run returned.
C23_Witness ==
  \E c \in ExpiryChecksV2 :
    c.now = c.v.Expires /\ c.ttl > 0 /\ c.err = Nil /\ pc[c.p] = "done"

\* C23 witness of the failure: an expired RegistrationV2 was rejected under
\* an unbounded ttl.
C23_WitnessExpired ==
  \E c \in ExpiryChecksV2 :
    c.now > c.v.Expires /\ c.v.Expires # 0 /\ c.ttl <= 0 /\ errorsIs(c.err, ErrInvalidInput)

\* C23, the method: (*RegistrationV2).ValidateDuration called on the
\* registration itself returns nil, expired or not.
C23_MethodReturnsNil ==
  direct.method = "ValidateDuration" /\ reg[direct.r].variant = "V2" => direct.err = Nil

\* C23 case of the method reached: it passed an expired RegistrationV2.
C23_MethodReached ==
  /\ direct.method = "ValidateDuration" /\ reg[direct.r].variant = "V2"
  /\ direct.real > reg[direct.r].Expires /\ direct.err = Nil

\* C24: a CustomDuration rendered by MarshalJSON and decoded by UnmarshalJSON
\* is decoded without error to the same duration, and rendering what was
\* decoded gives the same bytes again.
C24_DurationRoundTrip ==
  codec.from = "value" =>
    /\ codec.pc \in {"decoded", "done"} => codec.err = Nil /\ codec.out = codec.cd
    /\ codec.pc = "done" => codec.b2 = codec.b

\* C24 witness: a negative duration with hours, a zero minute and a fraction
\* of a second went through the round trip.
C24_Witness ==
  /\ codec.from = "value" /\ codec.pc = "done"
  /\ codec.cd = Dur(TRUE, 3601, 1500 * Microsecond)
  /\ codec.b = <<Quote, "-", "1", "h", "0", "m", "1", ".", "0", "0", "1", "5", "s", Quote>>
  /\ codec.out = codec.cd /\ codec.b2 = codec.b

\* C24 witness below the second: 1001ns is rendered in microseconds, with
\* the micro sign, and decoded back.
C24_WitnessMicro ==
  /\ codec.from = "value" /\ codec.pc = "done"
  /\ codec.b = <<Quote, "1", ".", "0", "0", "1", Micro, "s", Quote>>
  /\ codec.out = Dur(FALSE, 0, 1001)

\* The number of errors joined in err: 0 for nil, 1 for an error that is not
\* a join.
RECURSIVE SubErrors(_)
SubErrors(err) ==
  IF err = Nil THEN 0
  ELSE IF err.kind # "join" THEN 1
  ELSE IF Len(err.errs) = 1 THEN SubErrors(err.errs[1])
  ELSE SubErrors(err.errs[1]) + SubErrors(err.errs[2])

\* How many of the URLs the checker rejects.
Rejected(c, urls) == Cardinality({k \in DOMAIN urls : CheckerText(c, urls[k]) # Nil})

\* Every validation of the alternative URLs of a V1 registration with a
\* checker, by the option or by ValidateAltURL called on the registration
\* itself: the error, and how many of the URLs the checker rejects.
AltURLChecks ==
  {[err |-> a.err, via |-> "option", urls |-> a.v.AlternativeURLs,
    rejected |-> Rejected(a.o.checker, a.v.AlternativeURLs)] :
     a \in {b \in Applications :
              /\ b.o.op = "ProvideAlternativeURLValidator" /\ b.o.checker # NilChecker
              /\ b.v.variant = "V1"}}
  \cup (IF direct.method = "ValidateAltURL" /\ reg[direct.r].variant = "V1"
        THEN {[err |-> direct.err, via |-> "method", urls |-> reg[direct.r].AlternativeURLs,
               rejected |-> Rejected(direct.checker, reg[direct.r].AlternativeURLs)]}
        ELSE {})

\* C25 as stated: the validation of a V1 registration's alternative URLs
\* checks every URL and returns one joined sub-error per rejected URL, and
\* nil exactly when the checker accepts them all.
C25_EveryRejectedURLReported ==
  \A c \in AltURLChecks :
    /\ SubErrors(c.err) = c.rejected
    /\ c.err = Nil <=> c.rejected = 0

\* C25, the method: (*RegistrationV1).ValidateAltURL does join one error per
\* rejected URL, each matching ErrInvalidInput.
C25_MethodJoinsEveryRejectedURL ==
  \A c \in AltURLChecks :
    c.via = "method" =>
      /\ SubErrors(c.err) = c.rejected
      /\ c.err = Nil <=> c.rejected = 0
      /\ \A k \in DOMAIN c.urls :
           CheckerText(HTTPSChecker, c.urls[k]) # Nil
             => (MsgAltURL \o c.urls[k]) \in Messages(c.err)

\* C25 case of the method reached: two rejected URLs, two joined errors.
C25_MethodReached ==
  \E c \in AltURLChecks : c.via = "method" /\ c.rejected = 2 /\ SubErrors(c.err) = 2

\* C25, the option: it returns nil exactly when the checker accepts every
\* URL, and a single error otherwise, however many URLs are rejected.
C25_OptionStopsAtFirst ==
  \A c \in AltURLChecks :
    c.via = "option" =>
      /\ c.err = Nil <=> c.rejected = 0
      /\ SubErrors(c.err) <= 1

\* C25 case of the option reached: two rejected URLs, one error.
C25_OptionReached ==
  \E c \in AltURLChecks : c.via = "option" /\ c.rejected = 2 /\ SubErrors(c.err) = 1

\* A run q that made one expiry check on a V1 registration with only Until
\* set while a run p, entered before q returned, was applying ProvideTimeNowFunc(f)
\* to the same registration.
Racing(p, q, f) ==
  /\ p # q /\ target[p] = target[q]
  /\ pc[p] # "idle" /\ pc[q] # "idle"
  /\ opts[p] = <<ProvideTimeNowFunc(f)>>
  /\ Len(opts[q]) = 1 /\ opts[q][1].op = "ValidateRegistrationDuration"
  /\ Len(trace[q]) = 1
  /\ V(q).variant = "V1" /\ V(q).Duration = 0 /\ V(q).Until # 0

\* What an expiry check with bound ttl returns for Until when its clock reads
\* now: a failure or not.
FailsAt(until, now, ttl) == until < now \/ (ttl > 0 /\ until > now + ttl)

\* The instant read from a clock function, or from the real clock when the
\* function is nil.
ReadAt(f, real) == IF f # NilFunc THEN f ELSE real

\* C26: when a run applies the clock override to a V1 registration while
\* another run makes its expiry check on it, the check reads either the clock
\* the registration was handed over with or the one being installed, whichever
\* the interleaving gives, and its result is the one that clock yields.
C26_RacingCheckReadsOldOrNewClock ==
  \A p, q \in RunIds, f \in ClockFuncs :
    Racing(p, q, f) =>
      LET read == trace[q][1].nowFunc
      IN  /\ read \in {reg0[target[q]].nowFunc, f}
          /\ read = f /\ f # reg0[target[q]].nowFunc => Len(trace[p]) = 1
          /\ errs[q] # Nil <=>
                FailsAt(V(q).Until, ReadAt(read, trace[q][1].real), opts[q][1].ttl)

\* The racing runs whose result hangs on the clock read: the old clock and
\* the new one give different results for the same registration, lists and
\* reading of the real clock.
RaceDecides(p, q, f) ==
  /\ Racing(p, q, f)
  /\ pc[p] = "done" /\ pc[q] = "done"
  /\ FailsAt(V(q).Until, ReadAt(f, trace[q][1].real), opts[q][1].ttl)
       # FailsAt(V(q).Until, ReadAt(reg0[target[q]].nowFunc, trace[q][1].real), opts[q][1].ttl)

\* C26 witness: the expiry check read the new clock and failed, where the old
\* clock would have let it pass.
C26_Witness ==
  \E p, q \in RunIds, f \in ClockFuncs :
    /\ RaceDecides(p, q, f)
    /\ trace[q][1].nowFunc = f
    /\ errs[q] # Nil

\* C26 witness of the other interleaving: from the same registration, lists
\* and real clock the check read the old clock and passed.
C26_WitnessOld ==
  \E p, q \in RunIds, f \in ClockFuncs :
    /\ RaceDecides(p, q, f)
    /\ trace[q][1].nowFunc = reg0[target[q]].nowFunc
    /\ errs[q] = Nil

\* The clock of the last ProvideTimeNowFunc among the first n options of a
\* list, given the clock held before them.
RECURSIVE LastClock(_, _, _)
LastClock(l, n, before) ==
  IF n = 0 THEN before
  ELSE IF l[n].op = "ProvideTimeNowFunc" THEN l[n].nowFunc
  ELSE LastClock(l, n - 1, before)

\* The step in which run p applies the expiry check at its loop position.
ChecksExpiry(p) ==
  /\ pc[p] = "loop" /\ idx[p] <= Len(opts[p]) /\ idx'[p] = idx[p] + 1
  /\ opts[p][idx[p]].op = "ValidateRegistrationDuration"
  /\ V(p).variant = "V1" /\ V(p).Duration = 0 /\ V(p).Until # 0

\* C27: the clock a run installs stays on the V1 registration after the run
\* has returned.  An expiry check that a run makes on the registration after
\* another run on it has returned, with no clock option of its own before the
\* check, is evaluated against the last clock the returned run installed.
C27_OverrideOutlivesRun ==
  [][\A p, q \in RunIds :
       (/\ p # q /\ target[p] = target[q] /\ pc[q] = "done"
        /\ ChecksExpiry(p)
        /\ LastClock(opts[p], idx[p] - 1, NilFunc) = NilFunc
        /\ LastClock(opts[q], Len(opts[q]), NilFunc) # NilFunc)
       => LET f == LastClock(opts[q], Len(opts[q]), NilFunc)
              err == trace'[p][Len(trace'[p])].err
          IN  /\ reg'[target[p]].nowFunc = f
              /\ err # Nil <=> FailsAt(V(p).Until, f, opts[p][idx[p]].ttl)]_vars

\* C27 witness: the list [ValidateRegistrationDuration(ttl), ProvideTimeNowFunc(f)]
\* was run twice on a registration handed over without a clock; the first run
\* read the real clock and the second f, and the results differ.
C27_Witness ==
  \E p, q \in RunIds :
    /\ SameCallTwice(p, q)
    /\ opts[p] = <<ValidateRegistrationDuration(MaxTTL), ProvideTimeNowFunc(mockNow)>>
    /\ reg0[target[p]].nowFunc = NilFunc
    /\ trace[q][1].nowFunc = NilFunc /\ trace[p][1].nowFunc = mockNow
    /\ errs[q] # Nil
    /\ errs[p] = Nil
    /\ ~FailsAt(V(p).Until, mockNow, MaxTTL)

\* C27 witness of a later run with no clock option: after a run of
\* [ProvideTimeNowFunc(f)] had returned, a run of [ValidateRegistrationDuration(ttl)]
\* was entered and failed against f where the real clock would have passed.
C27_WitnessNoClockOption ==
  \E p, q \in RunIds :
    /\ p # q /\ target[p] = target[q] /\ pc[q] = "done" /\ pc[p] = "done"
    /\ opts[q] = <<ProvideTimeNowFunc(mockNow)>>
    /\ opts[p] = <<ValidateRegistrationDuration(MaxTTL)>>
    /\ reg0[target[p]].nowFunc = NilFunc
    /\ errs[p] # Nil
    /\ ~FailsAt(V(p).Until, trace[p][1].real, MaxTTL)

\* A run that has its V1 registration, with only Until set, to itself: no
\* other run on it has been entered.
Sole(p) ==
  /\ pc[p] # "idle"
  /\ \A q \in RunIds \ {p} : target[q] = target[p] => pc[q] = "idle"
  /\ V(p).variant = "V1" /\ V(p).Duration = 0 /\ V(p).Until # 0

\* The clock in force at position k of the trace of a sole run: that of the
\* most recent ProvideTimeNowFunc applied before it, else the one the
\* registration was handed over with.
ClockInForce(p, k) ==
  LastClock(opts[p], trace[p][k].i - 1, reg0[target[p]].nowFunc)

\* C28: on a V1 registration every ProvideTimeNowFunc returns nil, a nil
\* function included, and every expiry check is evaluated against the clock
\* of the most recent ProvideTimeNowFunc applied before it: against that
\* function when it is not nil, against the real clock when it is nil.
C28_MostRecentClockOption ==
  \A p \in RunIds :
    Sole(p) =>
      \A k \in DOMAIN trace[p] :
        /\ Opt(p, k).op = "ProvideTimeNowFunc" => trace[p][k].err = Nil
        /\ Opt(p, k).op = "ValidateRegistrationDuration" =>
             (trace[p][k].err # Nil <=>
                FailsAt(V(p).Until, ReadAt(ClockInForce(p, k), trace[p][k].real), Opt(p, k).ttl))

\* C28 witness: ProvideTimeNowFunc(nil) cleared the clock the registration
\* was handed over with, and the expiry check after it was evaluated against
\* the real clock, with another result than the cleared clock would give.
C28_Witness ==
  \E p \in RunIds :
    /\ Sole(p) /\ pc[p] = "done" /\ Len(trace[p]) = 2
    /\ reg0[target[p]].nowFunc # NilFunc
    /\ Opt(p, 1) = ProvideTimeNowFunc(NilFunc)
    /\ Opt(p, 2).op = "ValidateRegistrationDuration"
    /\ V(p).nowFunc = NilFunc
    /\ errs[p] # Nil
    /\ ~FailsAt(V(p).Until, reg0[target[p]].nowFunc, Opt(p, 2).ttl)

\* C28 witness of an override: the expiry check after ProvideTimeNowFunc(f)
\* passed against f while the real clock had run past Until.
C28_WitnessOverride ==
  \E p \in RunIds :
    /\ Sole(p) /\ pc[p] = "done" /\ Len(trace[p]) = 2
    /\ Opt(p, 1).op = "ProvideTimeNowFunc" /\ Opt(p, 1).nowFunc # NilFunc
    /\ Opt(p, 2).op = "ValidateRegistrationDuration"
    /\ V(p).Until < trace[p][2].real
    /\ errs[p] = Nil

\* The applications of a URL option to a registration whose variant the
\* option has no case for: the alternative-URL option on a RegistrationV2, and
\* any URL option on a value that is neither variant.
UrlOptionOffVariant ==
  {a \in Applications :
     /\ a.o.op \in UrlOps
     /\ \/ a.v = NoReg
        \/ a.v.variant = "V2" /\ a.o.op = "ProvideAlternativeURLValidator"}

\* C29: such an application returns nil when the option was built with a nil
\* checker, the check for the checker coming before the look at the variant;
\* built with a checker it returns an error.
C29_NilCheckerBeforeVariant ==
  \A a \in UrlOptionOffVariant :
    /\ a.o.checker = NilChecker => a.err = Nil
    /\ a.o.checker # NilChecker => a.err # Nil

\* C29 witness: a run applied ProvideAlternativeURLValidator(nil) and then
\* ProvideAlternativeURLValidator(checker) to a RegistrationV2; the first
\* passed, the second did not.
C29_Witness ==
  \E p \in RunIds :
    /\ pc[p] = "done" /\ Len(trace[p]) = 2 /\ V(p).variant = "V2"
    /\ Opt(p, 1) = ProvideAlternativeURLValidator(NilChecker)
    /\ Opt(p, 2) = ProvideAlternativeURLValidator(HTTPSChecker)
    /\ trace[p][1].err = Nil /\ trace[p][2].err # Nil
    /\ errorsIs(errs[p], ErrInvalidType)

\* C29 witness for a value of neither variant: two URL options with a nil
\* checker were applied to it and the run returned nil.
C29_WitnessNoRegistration ==
  \E p \in RunIds :
    /\ pc[p] = "done" /\ Len(trace[p]) = 2 /\ V(p) = NoReg
    /\ Opt(p, 1) = ProvideFailureURLValidator(NilChecker)
    /\ Opt(p, 2) = ProvideReceiverURLValidator(NilChecker)
    /\ errs[p] = Nil

\* The expiry checks of a RegistrationV1 whose Until is unset and whose
\* Duration is not zero.
DurationOnlyChecks == {c \in ExpiryChecks : c.v.Until = 0 /\ c.v.Duration # 0}

\* C30: for a RegistrationV1 with Until unset and a non-zero Duration, the
\* expiry check passes exactly when ttl <= 0 or Duration <= ttl, by the option
\* and by the method alike; a negative Duration therefore passes under every
\* ttl, and the clock plays no part.
C30_DurationOnlyPasses ==
  \A c \in DurationOnlyChecks :
    /\ c.err = Nil <=> (c.ttl <= 0 \/ c.v.Duration <= c.ttl)
    /\ c.err # Nil => errorsIs(c.err, ErrInvalidInput)
    /\ c.v.Duration < 0 => c.err = Nil

\* C30 witness: a negative Duration passed under a positive ttl.
C30_Witness ==
  \E c \in DurationOnlyChecks :
    c.v.Duration < 0 /\ c.ttl > 0 /\ c.err = Nil /\ c.via = "option"

\* C30 witness without a bound: a Duration above MaxTTL passed under a
\* negative ttl, by the method.
C30_WitnessNoBound ==
  \E c \in DurationOnlyChecks :
    c.v.Duration > MaxTTL /\ c.ttl < 0 /\ c.err = Nil /\ c.via = "method"

====
